---- MODULE Spec2Model ----
(***************************************************************************)
(* A model of the Openpay customer resource client (src/customer.go).      *)
(*                                                                         *)
(* The state is what a program using the client can observe: the objects   *)
(* the caller owns (heap), the merchant/session contexts, how many         *)
(* operations were invoked and how many newRequest / perform calls the     *)
(* collaborator has seen, and a record of the last invocation (its         *)
(* arguments, the collaborator calls it made in order, what it returned).  *)
(* Every exported operation is one action.  The collaborator (m.client) is *)
(* outside src/customer.go: its answers are inputs of the actions.         *)
(***************************************************************************)
EXTENDS Integers, Sequences, FiniteSets, TLC

(* ---------------------------- bounds ---------------------------------- *)
MaxObjs == 2       \* objects the caller can own at once
MaxList == 2       \* longest list the collaborator deserializes for GetCustomers
MaxCalls == 2      \* operation invocations in one run

(* ---------------------------- references ------------------------------ *)
NilMerchant == "nil"
Merchants == {"m1", "m2"}
\* A Merchant the decoder allocated because the response carried a "Merchant" key.
BodyMerchant == "mBody"
MerchantRefs == Merchants \cup {NilMerchant}

NilPtr == 0
Addrs == 1 .. MaxObjs

NoError == "nil"
ErrBuild == "ErrBuild"
ErrTransport == "ErrTransport"
ErrDecode == "ErrDecode"

IDs == {"", "cust_1"}

(* ---------------------------- data shapes ----------------------------- *)
ZeroTime == "zero"

ZeroAddress ==
  [Line1 |-> "", Line2 |-> "", Line3 |-> "", PostalCode |-> "", State |-> "",
   City |-> "", CountryCode |-> ""]

SomeAddress ==
  [Line1 |-> "Av 1", Line2 |-> "", Line3 |-> "", PostalCode |-> "76000",
   State |-> "Qro", City |-> "Qro", CountryCode |-> "MX"]

ZeroStore ==
  [Reference |-> "", BarcodeURL |-> "", PaybinReference |-> "", BarcodePaybinURL |-> ""]

SomeStore ==
  [Reference |-> "ref9", BarcodeURL |-> "https://b/ref9", PaybinReference |-> "pb9",
   BarcodePaybinURL |-> "https://b/pb9"]

ZeroCustomer ==
  [ID |-> "", CreationDate |-> ZeroTime, Name |-> "", LastName |-> "", Email |-> "",
   PhoneNumber |-> "", Status |-> "", Balance |-> 0, CLABE |-> "",
   Address |-> ZeroAddress, Store |-> ZeroStore, Merchant |-> NilMerchant]

ZeroCustomerArgs ==
  [ExternalID |-> "", Name |-> "", LastName |-> "", Email |-> "",
   RequiresAccount |-> FALSE, PhoneNumber |-> "", Address |-> ZeroAddress]

ZeroChargeArgs ==
  [Source_id |-> "", Method |-> "", Amount |-> 0, Currency |-> "", Description |-> "",
   Order_id |-> "", Device_session_id |-> ""]

(* ---------------------------- JSON encoding --------------------------- *)
\* Field tables: Go field, JSON key, omitempty option, Go kind of the field.
AddressFields ==
  << [go |-> "Line1", key |-> "line1", omitempty |-> FALSE, kind |-> "string"],
     [go |-> "Line2", key |-> "line2", omitempty |-> FALSE, kind |-> "string"],
     [go |-> "Line3", key |-> "line3", omitempty |-> FALSE, kind |-> "string"],
     [go |-> "PostalCode", key |-> "postal_code", omitempty |-> FALSE, kind |-> "string"],
     [go |-> "State", key |-> "state", omitempty |-> FALSE, kind |-> "string"],
     [go |-> "City", key |-> "city", omitempty |-> FALSE, kind |-> "string"],
     [go |-> "CountryCode", key |-> "country_code", omitempty |-> FALSE, kind |-> "string"] >>

StoreReferenceFields ==
  << [go |-> "Reference", key |-> "reference", omitempty |-> FALSE, kind |-> "string"],
     [go |-> "BarcodeURL", key |-> "barcode_url", omitempty |-> FALSE, kind |-> "string"],
     [go |-> "PaybinReference", key |-> "paybin_reference", omitempty |-> FALSE, kind |-> "string"],
     [go |-> "BarcodePaybinURL", key |-> "barcode_paybin_url", omitempty |-> FALSE, kind |-> "string"] >>

\* The Merchant field carries no tag: encoding/json encodes an exported field
\* without a tag under its Go name.
CustomerFields ==
  << [go |-> "ID", key |-> "id", omitempty |-> TRUE, kind |-> "string"],
     [go |-> "CreationDate", key |-> "creation_date", omitempty |-> FALSE, kind |-> "time"],
     [go |-> "Name", key |-> "name", omitempty |-> FALSE, kind |-> "string"],
     [go |-> "LastName", key |-> "last_name", omitempty |-> FALSE, kind |-> "string"],
     [go |-> "Email", key |-> "email", omitempty |-> FALSE, kind |-> "string"],
     [go |-> "PhoneNumber", key |-> "phone_number", omitempty |-> FALSE, kind |-> "string"],
     [go |-> "Status", key |-> "status", omitempty |-> FALSE, kind |-> "string"],
     [go |-> "Balance", key |-> "balance", omitempty |-> FALSE, kind |-> "float64"],
     [go |-> "CLABE", key |-> "clabe", omitempty |-> FALSE, kind |-> "string"],
     [go |-> "Address", key |-> "address", omitempty |-> FALSE, kind |-> "Address"],
     [go |-> "Store", key |-> "store", omitempty |-> FALSE, kind |-> "StoreReference"],
     [go |-> "Merchant", key |-> "Merchant", omitempty |-> FALSE, kind |-> "*Merchant"] >>

CustomerArgsFields ==
  << [go |-> "ExternalID", key |-> "external_id", omitempty |-> TRUE, kind |-> "string"],
     [go |-> "Name", key |-> "name", omitempty |-> FALSE, kind |-> "string"],
     [go |-> "LastName", key |-> "last_name", omitempty |-> TRUE, kind |-> "string"],
     [go |-> "Email", key |-> "email", omitempty |-> FALSE, kind |-> "string"],
     [go |-> "RequiresAccount", key |-> "requires_acount", omitempty |-> FALSE, kind |-> "bool"],
     [go |-> "PhoneNumber", key |-> "phone_number", omitempty |-> TRUE, kind |-> "string"],
     [go |-> "Address", key |-> "address", omitempty |-> TRUE, kind |-> "Address"] >>

ChargeArgsFields ==
  << [go |-> "Source_id", key |-> "source_id", omitempty |-> FALSE, kind |-> "string"],
     [go |-> "Method", key |-> "method", omitempty |-> FALSE, kind |-> "string"],
     [go |-> "Amount", key |-> "amount", omitempty |-> FALSE, kind |-> "float64"],
     [go |-> "Currency", key |-> "currency", omitempty |-> FALSE, kind |-> "string"],
     [go |-> "Description", key |-> "description", omitempty |-> FALSE, kind |-> "string"],
     [go |-> "Order_id", key |-> "order_id", omitempty |-> FALSE, kind |-> "string"],
     [go |-> "Device_session_id", key |-> "device_session_id", omitempty |-> FALSE, kind |-> "string"] >>

FieldsOf(ty) ==
  CASE ty = "Customer" -> CustomerFields
    [] ty = "CustomerArgs" -> CustomerArgsFields
    [] ty = "ChargeArgs" -> ChargeArgsFields
    [] ty = "Address" -> AddressFields
    [] ty = "StoreReference" -> StoreReferenceFields

JNull == [t |-> "null"]
JString(s) == [t |-> "string", v |-> s]
JBool(b) == [t |-> "bool", b |-> b]
JNumber(n) == [t |-> "number", n |-> n]
JObject(o) == [t |-> "object", o |-> o]
\* The encoding of a non-nil *Merchant: an object built from the session context.
JMerchant(m) == [t |-> "object", merchant |-> m]

\* time.Time encodes as an RFC 3339 string.
FormatTime(tm) == IF tm = ZeroTime THEN "0001-01-01T00:00:00Z" ELSE "2015-02-03T04:05:06Z"

\* What omitempty treats as empty: false, 0, a nil pointer, an empty string.
\* A struct value is never empty.
IsEmptyValue(kind, x) ==
  CASE kind = "string" -> x = ""
    [] kind = "bool" -> x = FALSE
    [] kind = "float64" -> x = 0
    [] kind = "*Merchant" -> x = NilMerchant
    [] OTHER -> FALSE

EncodeScalar(kind, x) ==
  CASE kind = "string" -> JString(x)
    [] kind = "bool" -> JBool(x)
    [] kind = "float64" -> JNumber(x)
    [] kind = "time" -> JString(FormatTime(x))
    [] kind = "*Merchant" -> IF x = NilMerchant THEN JNull ELSE JMerchant(x)

\* The fields of a struct that are encoded: all but the omitempty ones that
\* hold an empty value.
KeptFields(fields, v) ==
  {i \in DOMAIN fields : ~(fields[i].omitempty /\ IsEmptyValue(fields[i].kind, v[fields[i].go]))}

FieldOfKey(fields, kept, k) == fields[CHOOSE i \in kept : fields[i].key = k]

\* Address and StoreReference: structs of scalar fields.
EncodeScalarField(f, v) == EncodeScalar(f.kind, v[f.go])

EncodeInner(fields, v, kept) ==
  JObject([k \in {fields[i].key : i \in kept} |->
             EncodeScalarField(FieldOfKey(fields, kept, k), v)])

MarshalInner(fields, v) == EncodeInner(fields, v, KeptFields(fields, v))

EncodeValue(kind, x) ==
  CASE kind = "Address" -> MarshalInner(AddressFields, x)
    [] kind = "StoreReference" -> MarshalInner(StoreReferenceFields, x)
    [] OTHER -> EncodeScalar(kind, x)

EncodeField(f, v) == EncodeValue(f.kind, v[f.go])

EncodeOuter(fields, v, kept) ==
  JObject([k \in {fields[i].key : i \in kept} |-> EncodeField(FieldOfKey(fields, kept, k), v)])

MarshalFields(fields, v) == EncodeOuter(fields, v, KeptFields(fields, v))

MarshalStruct(ty, v) == MarshalFields(FieldsOf(ty), v)

Keys(j) == IF j.t = "object" /\ "o" \in DOMAIN j THEN DOMAIN j.o ELSE {}

(* ---------------------------- input values ---------------------------- *)
\* Customers the collaborator's perform deserializes from a response body.
RespAna == [ZeroCustomer EXCEPT !.ID = "cust_1", !.Name = "Ana"]
RespBo ==
  [ZeroCustomer EXCEPT !.ID = "cust_2", !.Name = "Bo", !.Status = "active",
                       !.Store = SomeStore, !.Merchant = BodyMerchant]
RespCustomers == {RespAna, RespBo}

\* The Customer a caller constructs manually: Customer{}, its Merchant still unset.
ManualCustomers == {ZeroCustomer}

ArgsRequiredOnly == [ZeroCustomerArgs EXCEPT !.Name = "Ana", !.Email = "ana@example.com"]
ArgsFull ==
  [ExternalID |-> "ext-7", Name |-> "Bo", LastName |-> "Diaz", Email |-> "bo@example.com",
   RequiresAccount |-> TRUE, PhoneNumber |-> "5550100", Address |-> SomeAddress]
ArgsValues == {ArgsRequiredOnly, ArgsFull}

ChargeArgsValues ==
  {[ZeroChargeArgs EXCEPT !.Source_id = "card_1", !.Method = "card", !.Amount = 100,
                          !.Currency = "MXN"]}

(* ---------------------------- state ----------------------------------- *)
VARIABLES
  heap,         \* address -> the object the caller owns there
  merchant,     \* merchant/session context -> its fields (the client it holds)
  calls,        \* operation invocations so far
  newRequests,  \* newRequest calls the collaborator has seen
  performs,     \* perform calls the collaborator has seen
  last          \* the last step: arguments, collaborator calls in order, outcome

vars == <<heap, merchant, calls, newRequests, performs, last>>

FreeObj == [kind |-> "free"]
CustomerObj(v) == [kind |-> "Customer", v |-> v]
CustomerArgsObj(v) == [kind |-> "CustomerArgs", v |-> v]
NoObj == [kind |-> "none"]

AddrsOf(kind) == {a \in Addrs : heap[a].kind = kind}
HasFree == AddrsOf("free") # {}
Fresh(h) == CHOOSE a \in Addrs : h[a].kind = "free"

(* ---------------------------- values handed to the collaborator ------- *)
\* body: the untyped nil, a pointer, a pointer to a pointer variable, a value.
NoBody == [t |-> "nil"]
PtrBody(ty, a) == [t |-> "ptr", ty |-> ty, addr |-> a]
PtrPtrBody(ty, a) == [t |-> "ptrptr", ty |-> ty, addr |-> a]
ValueBody(ty, v) == [t |-> "value", ty |-> ty, v |-> v]

\* dst: the untyped nil, the address of a local variable, a caller's pointer.
NoDst == [t |-> "nil"]
LocalDst(ty) == [t |-> "local", ty |-> ty]
CallerDst(ref) == [t |-> "caller", ref |-> ref]
CallerDsts == {NoDst, CallerDst("charge1")}

NoPayload == [t |-> "none"]
NilRequest == [t |-> "nilreq"]
NoVal == [t |-> "none"]
NilSlice == [nil |-> TRUE, elems |-> <<>>]
Slice(s) == [nil |-> FALSE, elems |-> s]

(* ---------------------------- the collaborator ------------------------ *)
\* The wire payload newRequest serializes from the body it is handed.
Payload(h, body) ==
  CASE body.t = "nil" -> NoPayload
    [] body.t = "value" -> MarshalStruct(body.ty, body.v)
    [] OTHER -> IF body.addr = NilPtr THEN JNull
                ELSE MarshalStruct(body.ty, h[body.addr].v)

\* newRequest(verb, path, body) -> Request | error; nr is the error it answers.
MakeRequest(client, verb, path, body, payload, nr) ==
  [call |-> [fn |-> "newRequest", client |-> client, verb |-> verb, path |-> path,
             body |-> body, payload |-> payload, err |-> nr],
   req |-> IF nr = NoError
           THEN [t |-> "request", verb |-> verb, path |-> path, payload |-> payload]
           ELSE NilRequest,
   err |-> nr]

newRequest(client, verb, path, body, nr) ==
  MakeRequest(client, verb, path, body, Payload(heap, body), nr)

\* perform(request, destination) -> error; pr is its answer: the error and the
\* value it deserialized into the destination (possibly partial on an error).
perform(client, req, dst, pr) ==
  [call |-> [fn |-> "perform", client |-> client, req |-> req, dst |-> dst, err |-> pr.err,
             wrote |-> pr.val],
   err |-> pr.err,
   val |-> pr.val]

\* The collaborator's answers to one invocation: nr is what newRequest returns
\* (nil or an error); err and val are what perform then returns and deserializes
\* into the destination.  After a failed newRequest perform is never asked.
BuildFails == [nr |-> ErrBuild, err |-> NoError, val |-> NoVal]
Answer(err, val) == [nr |-> NoError, err |-> err, val |-> val]

CustomerAnswers ==
  {BuildFails}
    \cup {Answer(NoError, c) : c \in RespCustomers}
    \cup {Answer(ErrDecode, RespAna)}

SeqsUpTo(S, n) == UNION {[1 .. k -> S] : k \in 0 .. n}

ListAnswers ==
  {BuildFails, Answer(NoError, NilSlice)}
    \cup {Answer(NoError, Slice(s)) : s \in SeqsUpTo(RespCustomers, MaxList)}
    \cup {Answer(ErrDecode, Slice(<<RespAna>>))}

PlainAnswers == {BuildFails, Answer(NoError, NoVal), Answer(ErrTransport, NoVal)}

(* ---------------------------- operations ------------------------------ *)
\* What one invocation did: the collaborator calls in order, whether it returned
\* or panicked, the error and the result it returned, and the caller's heap.
Returned(trace, err, new, ret, list) ==
  [outcome |-> "return", trace |-> trace, err |-> err, new |-> new, ret |-> ret,
   list |-> list, heap |-> heap]

\* A nil pointer dereference: a run-time panic, before any collaborator call.
Panicked ==
  [outcome |-> "panic", trace |-> <<>>, err |-> NoError, new |-> NoObj, ret |-> NilPtr,
   list |-> NilSlice, heap |-> heap]

\* The two collaborator calls every operation makes, in order, with the early
\* return after each: r1 is what newRequest answered, r2 what perform answered.
\* Faulty variant: a failed perform is tried once more.
AfterPerform_Retry(r1, r2) ==
  [outcome |-> "return", err |-> r2.err,
   trace |-> IF r2.err # NoError THEN <<r1.call, r2.call, r2.call>> ELSE <<r1.call, r2.call>>,
   val |-> r2.val]

AfterPerform(r1, r2) ==
  [outcome |-> "return", err |-> r2.err, trace |-> <<r1.call, r2.call>>, val |-> r2.val]

AfterNewRequest(client, r1, dst, pr) ==
  IF r1.err # NoError
  THEN [outcome |-> "return", err |-> r1.err, trace |-> <<r1.call>>, val |-> NoVal]
  ELSE AfterPerform(r1, perform(client, r1.req, dst, pr))

RoundTrip(client, verb, path, data, dst, nr, pr) ==
  AfterNewRequest(client, newRequest(client, verb, path, data, nr), dst, pr)

\* Faulty variant: the path of an empty id is normalised to the collection's.
performCustomerOperation_TrimSlash(m, verb, id, data, dst, nr, pr) ==
  IF m \notin Merchants THEN Panicked
  ELSE RoundTrip(merchant[m].client, verb,
                 IF id = "" THEN "customers" ELSE "customers/" \o id, data, dst, nr, pr)

performCustomerOperation(m, verb, id, data, dst, nr, pr) ==
  IF m \notin Merchants THEN Panicked
  ELSE RoundTrip(merchant[m].client, verb, "customers/" \o id, data, dst, nr, pr)

\* Faulty variant: the Merchant assignment is left out.
CustomerResult_NoMerchant(m, r) ==
  IF r.outcome = "panic" THEN Panicked
  ELSE IF r.err # NoError
       THEN Returned(r.trace, r.err, NoObj, NilPtr, NilSlice)
       ELSE Returned(r.trace, NoError, CustomerObj(r.val), NilPtr, NilSlice)

\* return nil, err / customer.Merchant = m; return &customer, nil
CustomerResult(m, r) ==
  IF r.outcome = "panic" THEN Panicked
  ELSE IF r.err # NoError
       THEN Returned(r.trace, r.err, NoObj, NilPtr, NilSlice)
       ELSE Returned(r.trace, NoError, CustomerObj([r.val EXCEPT !.Merchant = m]), NilPtr,
                     NilSlice)

\* Faulty variant: the loop ranges over copies of the elements (for _, c := range customers).
SetMerchants_ByValue(customers, m) == customers

\* for i := range customers { customers[i].Merchant = m }
SetMerchants(customers, m) ==
  [customers EXCEPT !.elems =
     [i \in DOMAIN customers.elems |-> [customers.elems[i] EXCEPT !.Merchant = m]]]

\* Faulty variant: a failed perform still returns what was deserialized so far.
CustomersResult_Partial(m, r) ==
  IF r.err # NoError /\ Len(r.trace) = 1
  THEN Returned(r.trace, r.err, NoObj, NilPtr, NilSlice)
  ELSE Returned(r.trace, r.err, NoObj, NilPtr, SetMerchants(r.val, m))

\* return nil, err / return customers, nil
CustomersResult(m, r) ==
  IF r.err # NoError
  THEN Returned(r.trace, r.err, NoObj, NilPtr, NilSlice)
  ELSE Returned(r.trace, NoError, NoObj, NilPtr, SetMerchants(r.val, m))

\* return err
ErrorResult(r) ==
  IF r.outcome = "panic" THEN Panicked
  ELSE Returned(r.trace, r.err, NoObj, NilPtr, NilSlice)

AddCustomerRun(m, args, nr, pr) ==
  IF m \notin Merchants THEN Panicked
  ELSE CustomerResult(m, RoundTrip(merchant[m].client, "POST", "customers",
                                   PtrPtrBody("CustomerArgs", args),
                                   LocalDst("Customer"), nr, pr))

GetCustomersRun(m, nr, pr) ==
  IF m \notin Merchants THEN Panicked
  ELSE CustomersResult(m, RoundTrip(merchant[m].client, "GET", "customers", NoBody,
                                    LocalDst("[]Customer"), nr, pr))

GetCustomerRun(m, id, nr, pr) ==
  CustomerResult(m, performCustomerOperation(m, "GET", id, NoBody, LocalDst("Customer"),
                                             nr, pr))

\* Faulty variant: the response is deserialized into the caller's data, which is returned.
UpdateCustomerRun_IntoData(m, id, data, nr, pr) ==
  IF data = NilPtr \/ m \notin Merchants \/ nr # NoError \/ pr.err # NoError
  THEN CustomerResult(m, performCustomerOperation(m, "PUT", id, PtrBody("Customer", data),
                                                  LocalDst("Customer"), nr, pr))
  ELSE [Returned(performCustomerOperation(m, "PUT", id, PtrBody("Customer", data),
                                          CallerDst("data"), nr, pr).trace,
                 NoError, NoObj, data, NilSlice)
          EXCEPT !.heap = [heap EXCEPT ![data] = CustomerObj([pr.val EXCEPT !.Merchant = m])]]

UpdateCustomerRun(m, id, data, nr, pr) ==
  CustomerResult(m, performCustomerOperation(m, "PUT", id, PtrBody("Customer", data),
                                             LocalDst("Customer"), nr, pr))

DeleteCustomerRun(m, id, nr, pr) ==
  ErrorResult(performCustomerOperation(m, "DELETE", id, NoBody, NoDst, nr, pr))

ChargeCustomerRun(c, data, dst, nr, pr) ==
  ErrorResult(performCustomerOperation(heap[c].v.Merchant, "POST",
                                       heap[c].v.ID \o "/charges", data, dst, nr, pr))

(* ---------------------------- actions --------------------------------- *)
\* The caller runs one invocation at a time: it starts the next one, or touches
\* its own values, once the previous invocation is over and its result taken.
BetweenCalls == last.outcome = "caller"

CountCalls(trace, fn) == Cardinality({i \in DOMAIN trace : trace[i].fn = fn})

\* One invocation by the caller: the run's effects become the next state.
Invoke(op, m, id, arg, data, dst, run) ==
  /\ BetweenCalls
  /\ calls < MaxCalls
  /\ run.new.kind # "none" => \E a \in Addrs : run.heap[a].kind = "free"
  /\ LET ret == IF run.new.kind # "none" THEN Fresh(run.heap) ELSE run.ret
     IN /\ heap' = IF run.new.kind # "none" THEN [run.heap EXCEPT ![ret] = run.new]
                   ELSE run.heap
        /\ last' = [op |-> op, m |-> m, id |-> id, arg |-> arg, data |-> data, dst |-> dst,
                    outcome |-> run.outcome, err |-> run.err, ret |-> ret,
                    list |-> run.list, trace |-> run.trace]
  /\ calls' = calls + 1
  /\ newRequests' = newRequests + CountCalls(run.trace, "newRequest")
  /\ performs' = performs + CountCalls(run.trace, "perform")
  /\ UNCHANGED merchant

AddCustomer ==
  \E m \in Merchants, args \in AddrsOf("CustomerArgs") \cup {NilPtr},
     ans \in CustomerAnswers :
    Invoke("AddCustomer", m, "", args, NoBody, NoDst, AddCustomerRun(m, args, ans.nr, ans))

GetCustomers ==
  \E m \in Merchants, ans \in ListAnswers :
    Invoke("GetCustomers", m, "", NilPtr, NoBody, NoDst, GetCustomersRun(m, ans.nr, ans))

GetCustomer ==
  \E m \in Merchants, id \in IDs, ans \in CustomerAnswers :
    Invoke("GetCustomer", m, id, NilPtr, NoBody, NoDst, GetCustomerRun(m, id, ans.nr, ans))

UpdateCustomer ==
  \E m \in Merchants, id \in IDs, data \in AddrsOf("Customer") \cup {NilPtr},
     ans \in CustomerAnswers :
    Invoke("UpdateCustomer", m, id, data, NoBody, NoDst,
           UpdateCustomerRun(m, id, data, ans.nr, ans))

DeleteCustomer ==
  \E m \in Merchants, id \in IDs, ans \in PlainAnswers :
    Invoke("DeleteCustomer", m, id, NilPtr, NoBody, NoDst, DeleteCustomerRun(m, id, ans.nr, ans))

ChargeCustomer ==
  \E c \in AddrsOf("Customer"), v \in ChargeArgsValues, dst \in CallerDsts,
     ans \in PlainAnswers :
    Invoke("ChargeCustomer", heap[c].v.Merchant, heap[c].v.ID, c,
           ValueBody("ChargeArgs", v), dst,
           ChargeCustomerRun(c, ValueBody("ChargeArgs", v), dst, ans.nr, ans))

\* The caller's own steps on the values it owns; no invocation is under way.
Idle ==
  [op |-> "none", m |-> NilMerchant, id |-> "", arg |-> NilPtr, data |-> NoBody,
   dst |-> NoDst, outcome |-> "caller", err |-> NoError, ret |-> NilPtr,
   list |-> NilSlice, trace |-> <<>>]

NewCustomer ==
  \E v \in ManualCustomers :
    /\ BetweenCalls
    /\ HasFree
    /\ heap' = [heap EXCEPT ![Fresh(heap)] = CustomerObj(v)]
    /\ last' = Idle
    /\ UNCHANGED <<merchant, calls, newRequests, performs>>

NewCustomerArgs ==
  \E v \in ArgsValues :
    /\ BetweenCalls
    /\ HasFree
    /\ heap' = [heap EXCEPT ![Fresh(heap)] = CustomerArgsObj(v)]
    /\ last' = Idle
    /\ UNCHANGED <<merchant, calls, newRequests, performs>>

\* "Otherwise, you must set it yourself."
SetMerchant ==
  \E a \in AddrsOf("Customer"), m \in MerchantRefs :
    /\ BetweenCalls
    /\ heap' = [heap EXCEPT ![a].v.Merchant = m]
    /\ last' = Idle
    /\ UNCHANGED <<merchant, calls, newRequests, performs>>

\* A value goes out of scope.
Drop ==
  \E a \in Addrs :
    /\ BetweenCalls
    /\ heap[a].kind # "free"
    /\ heap' = [heap EXCEPT ![a] = FreeObj]
    /\ last' = Idle
    /\ UNCHANGED <<merchant, calls, newRequests, performs>>

\* The invocation is over: the caller has taken what it returned, or has
\* recovered from its panic, and goes on.
Resume ==
  /\ ~BetweenCalls
  /\ last' = Idle
  /\ UNCHANGED <<heap, merchant, calls, newRequests, performs>>

Init ==
  /\ heap = [a \in Addrs |-> FreeObj]
  /\ merchant = [m \in Merchants |-> [client |-> "client_" \o m]]
  /\ calls = 0
  /\ newRequests = 0
  /\ performs = 0
  /\ last = Idle

Next ==
  \/ AddCustomer
  \/ GetCustomers
  \/ GetCustomer
  \/ UpdateCustomer
  \/ DeleteCustomer
  \/ ChargeCustomer
  \/ NewCustomer
  \/ NewCustomerArgs
  \/ SetMerchant
  \/ Drop
  \/ Resume

Spec == Init /\ [][Next]_vars

(* ---------------------------- properties ------------------------------ *)
Ended == last.outcome \in {"return", "panic"}
ReturnedOk == last.outcome = "return" /\ last.err = NoError
NewRequestCalls == {i \in DOMAIN last.trace : last.trace[i].fn = "newRequest"}
RequestOf(call) ==
  [t |-> "request", verb |-> call.verb, path |-> call.path, payload |-> call.payload]
\* The keys of a JSON object and of the objects directly inside it.
AllKeys(j) == Keys(j) \cup UNION {Keys(j.o[k]) : k \in Keys(j)}
StoreKeys == {"store", "reference", "barcode_url", "paybin_reference", "barcode_paybin_url"}

\* C1: ChargeCustomer on a Customer whose Merchant is nil returns a "missing
\* reference" error to the caller: it does not panic on the nil reference and
\* makes no newRequest or perform call.
C1_NilMerchantChargeReturnsError ==
  (last.op = "ChargeCustomer" /\ last.m = NilMerchant)
    => (last.outcome = "return" /\ last.err # NoError /\ last.trace = <<>>)

\* C2: the payload AddCustomer sends holds an optional field (external_id,
\* last_name, phone_number, address) if and only if that field is non-empty.
C2_OptionalFieldsOmittedIffEmpty ==
  (last.op = "AddCustomer" /\ last.trace # <<>> /\ last.arg # NilPtr)
    => LET sent == Keys(last.trace[1].payload)
           args == heap[last.arg].v
       IN /\ ("external_id" \in sent) <=> (args.ExternalID # "")
          /\ ("last_name" \in sent) <=> (args.LastName # "")
          /\ ("phone_number" \in sent) <=> (args.PhoneNumber # "")
          /\ ("address" \in sent) <=> (args.Address # ZeroAddress)

\* C3: no body handed to newRequest encodes a Merchant field, whether the
\* Customer sent has its Merchant nil or set.
C3_MerchantNeverSerialized ==
  \A i \in NewRequestCalls : "Merchant" \notin Keys(last.trace[i].payload)

\* C4: a Customer returned with a nil error by AddCustomer, GetCustomer or
\* UpdateCustomer, and every element GetCustomers returns with a nil error, has
\* its Merchant equal to the (non-nil) context the operation was called on,
\* whatever the response body held.
C4_ReturnedCustomerHasCallingMerchant ==
  /\ (ReturnedOk /\ last.op \in {"AddCustomer", "GetCustomer", "UpdateCustomer"})
       => /\ last.m \in Merchants
          /\ last.ret # NilPtr
          /\ heap[last.ret].kind = "Customer"
          /\ heap[last.ret].v.Merchant = last.m
  /\ (ReturnedOk /\ last.op = "GetCustomers")
       => /\ last.m \in Merchants
          /\ \A i \in DOMAIN last.list.elems : last.list.elems[i].Merchant = last.m

C4_Witness ==
  /\ ReturnedOk
  /\ last.op = "UpdateCustomer"
  /\ last.m = "m2"
  /\ last.trace[2].wrote.Merchant = BodyMerchant
  /\ heap[last.ret].v.Merchant = "m2"

\* C5: on success GetCustomers returns a sequence of the length and in the
\* order perform deserialized, every element with Merchant set to the calling
\* context and its other fields unchanged; an empty result stays empty.
C5_GetCustomersKeepsOrderSetsEveryMerchant ==
  (ReturnedOk /\ last.op = "GetCustomers")
    => LET got == last.trace[2].wrote.elems
       IN /\ Len(last.list.elems) = Len(got)
          /\ \A i \in DOMAIN got : last.list.elems[i] = [got[i] EXCEPT !.Merchant = last.m]

C5_Witness ==
  /\ ReturnedOk
  /\ last.op = "GetCustomers"
  /\ last.m = "m2"
  /\ last.trace[2].wrote.elems = <<RespBo, RespAna>>
  /\ last.list.elems = <<[RespBo EXCEPT !.Merchant = "m2"], [RespAna EXCEPT !.Merchant = "m2"]>>

\* The error an invocation returns is the error of the collaborator call that
\* failed, unchanged, and nil when none failed.
ErrorUnchanged ==
  LET failed == {i \in DOMAIN last.trace : last.trace[i].err # NoError}
  IN IF failed = {} THEN last.err = NoError
     ELSE \A i \in failed : last.err = last.trace[i].err

\* AddCustomer, GetCustomer and UpdateCustomer return a non-nil Customer
\* exactly when the error is nil.
CustomerIffNoError ==
  last.op \in {"AddCustomer", "GetCustomer", "UpdateCustomer"}
    => ((last.ret # NilPtr) <=> (last.err = NoError))

\* C6 as claimed: every collaborator error is returned unchanged, and every
\* value-returning operation, GetCustomers included, returns a non-nil result
\* exactly when the returned error is nil.
C6_ResultExactlyWhenNoError ==
  last.outcome = "return"
    => /\ ErrorUnchanged
       /\ CustomerIffNoError
       /\ last.op = "GetCustomers" => ((~last.list.nil) <=> (last.err = NoError))

\* C6 as amended: every collaborator error is returned unchanged; on an error
\* the result is nil; with a nil error AddCustomer, GetCustomer and
\* UpdateCustomer return a non-nil Customer, and GetCustomers returns the
\* sequence perform deserialized, which is nil when perform left it nil.
C6_ErrorsUnchangedNoPartialResult ==
  last.outcome = "return"
    => /\ ErrorUnchanged
       /\ CustomerIffNoError
       /\ last.op = "GetCustomers"
            => /\ last.err # NoError => (last.list.nil /\ last.list.elems = <<>>)
               /\ last.err = NoError => (last.list.nil <=> last.trace[2].wrote.nil)

C6_Witness ==
  /\ ReturnedOk
  /\ last.op = "GetCustomers"
  /\ last.trace[2].wrote = NilSlice
  /\ last.list.nil

\* C7: each operation hands the collaborator the verb, path, body and
\* destination of its row, through the client of the context it was called on
\* (c.Merchant for ChargeCustomer), for every id, the empty one included; perform
\* gets the request newRequest returned; DeleteCustomer returns no value.
C7_VerbPathBodyDestination ==
  last.outcome = "return"
    => LET nr == last.trace[1]
           dstOk(dst) == Len(last.trace) = 2 => last.trace[2].dst = dst
           sent(verb, path, body, dst) ==
             /\ nr.fn = "newRequest"
             /\ nr.client = merchant[last.m].client
             /\ nr.verb = verb
             /\ nr.path = path
             /\ nr.body = body
             /\ dstOk(dst)
             /\ Len(last.trace) = 2
                  => /\ last.trace[2].client = merchant[last.m].client
                     /\ last.trace[2].req = RequestOf(nr)
       IN CASE last.op = "AddCustomer" ->
                 sent("POST", "customers", PtrPtrBody("CustomerArgs", last.arg),
                      LocalDst("Customer"))
            [] last.op = "GetCustomers" ->
                 sent("GET", "customers", NoBody, LocalDst("[]Customer"))
            [] last.op = "GetCustomer" ->
                 sent("GET", "customers/" \o last.id, NoBody, LocalDst("Customer"))
            [] last.op = "UpdateCustomer" ->
                 sent("PUT", "customers/" \o last.id, PtrBody("Customer", last.arg),
                      LocalDst("Customer"))
            [] last.op = "DeleteCustomer" ->
                 /\ sent("DELETE", "customers/" \o last.id, NoBody, NoDst)
                 /\ last.ret = NilPtr
            [] last.op = "ChargeCustomer" ->
                 /\ last.m = heap[last.arg].v.Merchant
                 /\ sent("POST", "customers/" \o heap[last.arg].v.ID \o "/charges",
                         last.data, last.dst)

C7_Witness ==
  /\ ReturnedOk
  /\ last.op = "ChargeCustomer"
  /\ heap[last.arg].v.Merchant = "m2"
  /\ last.trace[1].path = "customers/cust_2/charges"
  /\ last.trace[1].client = "client_m2"
  /\ last.trace[2].dst = CallerDst("charge1")

\* C8: no request body built by any operation holds the store reference
\* fields (store, reference, barcode_url, paybin_reference, barcode_paybin_url).
C8_StoreReferenceNeverSent ==
  \A i \in NewRequestCalls : AllKeys(last.trace[i].payload) \cap StoreKeys = {}

\* One request/response cycle: newRequest once, then perform once on the
\* request it returned, and no perform after a failed newRequest.
OneCycle(l) ==
  /\ Len(l.trace) \in {1, 2}
  /\ l.trace[1].fn = "newRequest"
  /\ l.trace[1].err # NoError => (Len(l.trace) = 1 /\ l.err = l.trace[1].err)
  /\ l.trace[1].err = NoError
       => /\ Len(l.trace) = 2
          /\ l.trace[2].fn = "perform"
          /\ l.trace[2].req = RequestOf(l.trace[1])

C10_CallsChangeNothingAndReturnNewValues ==
  [][calls' = calls + 1
       => /\ merchant' = merchant
          /\ \A a \in Addrs : heap[a].kind # "free" => heap'[a] = heap[a]
          /\ last'.ret # NilPtr
               => /\ heap[last'.ret].kind = "free"
                  /\ heap'[last'.ret].kind = "Customer"]_vars

C10_Witness ==
  /\ ReturnedOk
  /\ last.op = "UpdateCustomer"
  /\ last.arg # NilPtr
  /\ last.ret # NilPtr
  /\ last.ret # last.arg
  /\ heap[last.arg].kind = "Customer"
  /\ heap[last.arg].v.Merchant = "m1"
  /\ heap[last.ret].v.Merchant = "m2"
====
